---- MODULE Spec2Model ----
(***************************************************************************)
(* SubSnipe (src/main.go): the bounded-concurrency CNAME resolution        *)
(* pipeline of checkCNAMEs and the fingerprint classification of           *)
(* processCNAMEResult.                                                     *)
(*                                                                         *)
(* Strings are sequences of one-character strings; a formatted line is the *)
(* concatenation of the format's literal pieces and its arguments.         *)
(***************************************************************************)
EXTENDS Integers, Sequences, FiniteSets, TLC

\* ------------------------------------------------------------------ bounds

\* Largest number of lines of the candidate file (crt-subdomains.txt).
MaxCandidates == 2

\* Capacity of the semaphore channel sem. The program runs with 20
\* (src/main.go:141); the pool is checked for a small capacity so that the
\* candidate list can exceed it.
maxConcurrency == 1

\* Capacity of the results channel. The program runs with 100
\* (src/main.go:139); checked for a small capacity so that senders can block.
ResultsCap == 1

\* ------------------------------------------------------------------ strings

Dot == "."
NL == "\n"
WhiteSpace == {" ", NL, "\t", "\r"}

Min(S) == CHOOSE x \in S : \A y \in S : x <= y

RECURSIVE TrimLeft(_)
TrimLeft(s) ==
    IF s # <<>> /\ Head(s) \in WhiteSpace THEN TrimLeft(Tail(s)) ELSE s

RECURSIVE TrimRight(_)
TrimRight(s) ==
    IF s # <<>> /\ s[Len(s)] \in WhiteSpace
    THEN TrimRight(SubSeq(s, 1, Len(s) - 1))
    ELSE s

\* strings.TrimSpace
TrimSpace(s) == TrimRight(TrimLeft(s))

\* strings.HasSuffix
HasSuffix(s, suffix) ==
    /\ Len(suffix) <= Len(s)
    /\ SubSeq(s, Len(s) - Len(suffix) + 1, Len(s)) = suffix

\* TrimSuffix removing every occurrence of suffix from the end of s.
RECURSIVE TrimSuffixAll(_, _)
TrimSuffixAll(s, suffix) ==
    IF suffix # <<>> /\ Len(suffix) <= Len(s)
       /\ SubSeq(s, Len(s) - Len(suffix) + 1, Len(s)) = suffix
    THEN TrimSuffixAll(SubSeq(s, 1, Len(s) - Len(suffix)), suffix)
    ELSE s

\* strings.TrimSuffix: removes one occurrence of suffix from the end of s
TrimSuffix(s, suffix) ==
    IF HasSuffix(s, suffix) THEN SubSeq(s, 1, Len(s) - Len(suffix)) ELSE s

\* the result of ifThenElse(cond, a, b)
ifThenElse(cond, a, b) == IF cond THEN a ELSE b

\* ------------------------------------------------------------------ inputs

\* Candidate domains: a.test, b.test, c.test, ...
DomainLetters == <<"a", "b", "c", "d", "e", "f">>
Domain(i) == <<DomainLetters[i], ".", "t", "e", "s", "t">>

\* The candidate files: the first n candidates, one per line, n = 0 included.
CandidateFiles == { [i \in 1..n |-> Domain(i)] : n \in 0..MaxCandidates }

\* Suffix patterns and service ids of the fingerprint entries.
aExample == <<"a", ".", "e", "x", "a", "m", "p", "l", "e">>
myshopifyCom == <<"m", "y", "s", "h", "o", "p", "i", "f", "y", ".", "c", "o", "m">>
myshopify == <<"m", "y", "s", "h", "o", "p", "i", "f", "y">>
svcA == <<"s", "v", "c", "a">>
svcB == <<"s", "v", "c", "b">>
shopify == <<"s", "h", "o", "p", "i", "f", "y">>
aService == <<"a">>

\* CNAME targets as dig prints them (fully qualified, with the root dot).
xAExampleDot == <<"x", ".", "a", ".", "e", "x", "a", "m", "p", "l", "e", ".">>
shopMyshopifyComDot ==
    <<"s", "h", "o", "p", ".", "m", "y", "s", "h", "o", "p", "i", "f", "y", ".", "c", "o", "m", ".">>

Targets == {xAExampleDot, shopMyshopifyComDot}

\* What exec.Command("dig", "+short", "CNAME", domain).Output() can return:
\* the bytes of standard output and whether the error is non-nil.
DigOutputs ==
    {[out |-> <<>>, err |-> TRUE], [out |-> <<>>, err |-> FALSE],
     [out |-> <<NL>>, err |-> FALSE]}
    \cup {[out |-> Append(t, NL), err |-> FALSE] : t \in Targets}

\* Fingerprint sources, entries in load order.
Entry(s, c, v) == [service |-> s, cname |-> c, vulnerable |-> v]
StoreAmbiguous == <<Entry(svcA, <<aExample>>, FALSE), Entry(svcB, <<aExample>>, TRUE)>>
StoreShopify == <<Entry(shopify, <<myshopifyCom>>, TRUE)>>
StoreMixed ==
    <<Entry(aService, <<>>, FALSE), Entry(myshopify, <<>>, FALSE),
      Entry(svcA, <<myshopifyCom>>, TRUE)>>
Stores == {StoreAmbiguous, StoreShopify, StoreMixed}

\* The fingerprint files: one per store, and one that cannot be read or parsed.
FingerprintFiles == {"ambiguous", "shopify", "mixed", "unreadable"}

\* What reading and parsing a fingerprint file gives.
ReadFile(file) ==
    CASE file = "ambiguous" -> [readable |-> TRUE, entries |-> StoreAmbiguous]
      [] file = "shopify" -> [readable |-> TRUE, entries |-> StoreShopify]
      [] file = "mixed" -> [readable |-> TRUE, entries |-> StoreMixed]
      [] OTHER -> [readable |-> FALSE, entries |-> <<>>]

\* ------------------------------------------------------------------ matching

\* The orders in which a range over a map of n entries can visit them: Go leaves
\* the iteration order of a map unspecified.
MapOrders(n) == { p \in [1..n -> 1..n] : \A i, j \in 1..n : p[i] = p[j] => i = j }

\* loadFingerprints(fingerprintsFile): the entries of the file, or an error.
loadFingerprints(file) ==
    IF ReadFile(file).readable
    THEN [fingerprints |-> ReadFile(file).entries, err |-> FALSE]
    ELSE [fingerprints |-> <<>>, err |-> TRUE]

\* The patterns of entry e that s ends with.
EntryMatches(s, e) == \E j \in 1..Len(e.cname) : HasSuffix(s, e.cname[j])

\* isVulnerableCNAME(cname, fingerprints), the range over the map visiting the
\* entries in the given order: <<matched, vulnerable>>.
isVulnerableCNAME(cname, fingerprints, order) ==
    LET trimmed == TrimSuffix(cname, <<Dot>>)
        hits == { k \in 1..Len(fingerprints) : EntryMatches(trimmed, fingerprints[order[k]]) }
    IN  IF hits = {}
        THEN <<FALSE, FALSE>>
        ELSE <<TRUE, fingerprints[order[Min(hits)]].vulnerable>>

\* The labels of a name: the pieces between its dots.
RECURSIVE Labels(_)
Labels(s) ==
    IF \A i \in 1..Len(s) : s[i] # Dot
    THEN <<s>>
    ELSE LET d == Min({ i \in 1..Len(s) : s[i] = Dot })
         IN  <<SubSeq(s, 1, d - 1)>> \o Labels(SubSeq(s, d + 1, Len(s)))

\* extractServiceName(cname): the label immediately left of the public suffix.
extractServiceName(cname) ==
    LET labels == Labels(TrimSuffix(cname, <<Dot>>))
    IN  IF Len(labels) >= 2 THEN labels[Len(labels) - 1] ELSE <<>>

\* isServiceVulnerable(sld, fingerprints): <<serviceMatch, vulnerable, service>>,
\* the search over the service ids (the keys of the map, each used once).
isServiceVulnerable(sld, fingerprints) ==
    LET hits == { k \in 1..Len(fingerprints) : fingerprints[k].service = sld }
    IN  IF hits = {}
        THEN <<FALSE, FALSE, <<>>>>
        ELSE LET e == fingerprints[Min(hits)] IN <<TRUE, e.vulnerable, e.service>>

\* ------------------------------------------------------------------ classifier

\* cnameResult
CnameResult(d, c, e) == [domain |-> d, cname |-> c, err |-> e]

\* appendResultBasedOnVulnerability(vulnerable, msg) on the buckets b
appendResultBasedOnVulnerability(vulnerable, line, b) ==
    IF vulnerable
    THEN [b EXCEPT !.isExploitable = Append(@, line)]
    ELSE [b EXCEPT !.notExploitable = Append(@, line)]

notFoundMsg(result) == <<"No CNAME record found for: ">> \o result.domain

foundMsg(result, vulnerable) ==
    <<"CNAME for ">> \o result.domain \o <<" is: ">> \o result.cname
        \o <<" (found matching fingerprint - ">>
        \o <<ifThenElse(vulnerable, "vulnerable", "safe")>> \o <<")">>

serviceMsg(result, service, vulnerable) ==
    <<"CNAME for ">> \o result.domain \o <<" is: ">> \o result.cname
        \o <<" (found potentially matching service '">> \o service \o <<"' - ">>
        \o <<ifThenElse(vulnerable, "vulnerable", "safe")>> \o <<")">>

unknownMsg(result) ==
    <<"CNAME for ">> \o result.domain \o <<" is: ">> \o result.cname

\* The steps of processCNAMEResult once the result is known to carry a name.
classifyNamed(result, fingerprints, order, b, serviceFirst) ==
    LET direct == isVulnerableCNAME(result.cname, fingerprints, order)
        sld == extractServiceName(result.cname)
        svc == isServiceVulnerable(sld, fingerprints)
        bd == [b EXCEPT !.calls = @ \cup {<<"isVulnerableCNAME", result>>}]
        bs == [b EXCEPT !.calls = @ \cup {<<"isServiceVulnerable", result>>}]
        bb == [bd EXCEPT !.calls = @ \cup {<<"isServiceVulnerable", result>>}]
    IN  IF serviceFirst /\ svc[1]
        THEN appendResultBasedOnVulnerability(svc[2], serviceMsg(result, svc[3], svc[2]), bs)
        ELSE IF direct[1]
        THEN appendResultBasedOnVulnerability(
                 direct[2], foundMsg(result, direct[2]), IF serviceFirst THEN bb ELSE bd)
        ELSE IF svc[1]
        THEN appendResultBasedOnVulnerability(svc[2], serviceMsg(result, svc[3], svc[2]), bb)
        ELSE [bb EXCEPT !.unknownExploitability = Append(@, unknownMsg(result))]

\* processCNAMEResult testing only the error, not the empty name.
processCNAMEResultErrOnly(result, fingerprints, order, b) ==
    IF result.err
    THEN [b EXCEPT !.notFound = Append(@, notFoundMsg(result))]
    ELSE classifyNamed(result, fingerprints, order, b, FALSE)

\* processCNAMEResult trying the service match before the direct match.
processCNAMEResultServiceFirst(result, fingerprints, order, b) ==
    IF result.err \/ result.cname = <<>>
    THEN [b EXCEPT !.notFound = Append(@, notFoundMsg(result))]
    ELSE classifyNamed(result, fingerprints, order, b, TRUE)

\* processCNAMEResult(result, fingerprints) on the buckets b (the package's
\* bucket lists and the log of matcher calls), the map visited in the given order.
processCNAMEResult(result, fingerprints, order, b) ==
    IF result.err \/ result.cname = <<>>
    THEN [b EXCEPT !.notFound = Append(@, notFoundMsg(result))]
    ELSE LET direct == isVulnerableCNAME(result.cname, fingerprints, order)
             b1 == [b EXCEPT !.calls = @ \cup {<<"isVulnerableCNAME", result>>}]
         IN  IF direct[1]
             THEN appendResultBasedOnVulnerability(direct[2], foundMsg(result, direct[2]), b1)
             ELSE LET sld == extractServiceName(result.cname)
                      svc == isServiceVulnerable(sld, fingerprints)
                      b2 == [b1 EXCEPT !.calls = @ \cup {<<"isServiceVulnerable", result>>}]
                  IN  IF svc[1]
                      THEN appendResultBasedOnVulnerability(
                               svc[2], serviceMsg(result, svc[3], svc[2]), b2)
                      ELSE [b2 EXCEPT !.unknownExploitability =
                                          Append(@, unknownMsg(result))]

\* queryAndSendCNAME's result for the output of dig
queryResult(domain, dig) ==
    IF dig.err \/ Len(dig.out) = 0
    THEN CnameResult(domain, <<>>, TRUE)
    ELSE CnameResult(domain, TrimSpace(dig.out), FALSE)

\* ------------------------------------------------------------------ state

VARIABLES
    pc,                    \* where the main goroutine is in checkCNAMEs
    exited,                \* the process has ended (main returned, or log.Fatalf)
    candidates,            \* the lines of the candidate file
    fingerprintsFile,      \* the fingerprint file
    fingerprints,          \* checkCNAMEs' fingerprints
    scanned,               \* lines the scanner has returned
    scanFailed,            \* scanner.Err() is non-nil
    wg,                    \* the WaitGroup's counter
    sem,                   \* permits held in the channel sem
    results,               \* the buffer of the channel results
    closed,                \* results has been closed
    wpc,                   \* where the worker of each candidate is
    msg,                   \* the cnameResult a worker is about to send
    cpc,                   \* where the consumer goroutine is
    cur,                   \* the result the consumer received
    isExploitable, notExploitable, unknownExploitability, notFound, found,
    report,                \* what writeResults wrote to the output file
    digCalls,              \* dig runs per candidate
    sends,                 \* sends on results per candidate
    consumed,              \* the results received from results, per candidate
    calls,                 \* the matcher calls made: <<matcher, result>>
    panicked,              \* a goroutine panicked
    first, second          \* the outcomes of classifying one result twice

pool == <<wg, sem, results, closed, wpc, msg>>
buckets == <<isExploitable, notExploitable, unknownExploitability, notFound, found>>
inputs == <<candidates, fingerprintsFile>>
history == <<digCalls, sends, consumed, calls>>
twice == <<first, second>>
vars == <<pc, exited, inputs, fingerprints, scanned, scanFailed, pool, cpc, cur,
          buckets, report, history, panicked, twice>>

Workers == 1..MaxCandidates

\* The line of the candidate file a domain stands on (the lines are distinct).
Candidate(d) == CHOOSE i \in Workers : Domain(i) = d
NoResult == CnameResult(<<>>, <<>>, FALSE)

Init ==
    /\ pc = "open"
    /\ exited = FALSE
    /\ candidates \in CandidateFiles
    /\ fingerprintsFile \in FingerprintFiles
    /\ fingerprints = <<>>
    /\ scanned = 0
    /\ scanFailed = FALSE
    /\ wg = 0
    /\ sem = 0
    /\ results = <<>>
    /\ closed = FALSE
    /\ wpc = [i \in Workers |-> "none"]
    /\ msg = [i \in Workers |-> NoResult]
    /\ cpc = "none"
    /\ cur = NoResult
    /\ isExploitable = <<>>
    /\ notExploitable = <<>>
    /\ unknownExploitability = <<>>
    /\ notFound = <<>>
    /\ found = <<>>
    /\ report = <<>>
    /\ digCalls = [i \in Workers |-> 0]
    /\ sends = [i \in Workers |-> 0]
    /\ consumed = [i \in Workers |-> <<>>]
    /\ calls = {}
    /\ panicked = FALSE
    /\ first = <<>>
    /\ second = <<>>

\* ------------------------------------------------------------------ checkCNAMEs

\* os.Open(subdomainsFilePath): on an error checkCNAMEs logs it and returns.
OpenFile ==
    /\ ~exited /\ pc = "open"
    /\ \E ok \in BOOLEAN : pc' = IF ok THEN "load" ELSE "returned"
    /\ UNCHANGED <<exited, inputs, fingerprints, scanned, scanFailed, pool, cpc, cur,
                   buckets, report, history, panicked, twice>>

\* LoadFingerprints logging the error and carrying on.
LoadFingerprintsLogOnly ==
    /\ ~exited /\ pc = "load"
    /\ fingerprints' = loadFingerprints(fingerprintsFile).fingerprints
    /\ pc' = "spawn"
    /\ UNCHANGED <<exited, inputs, scanned, scanFailed, pool, cpc, cur, buckets, report,
                   history, panicked, twice>>

\* fingerprints, err := loadFingerprints(fingerprintsFile); log.Fatalf on an error.
LoadFingerprints ==
    /\ ~exited /\ pc = "load"
    /\ LET loaded == loadFingerprints(fingerprintsFile)
       IN  IF loaded.err
           THEN /\ exited' = TRUE
                /\ UNCHANGED <<pc, fingerprints>>
           ELSE /\ fingerprints' = loaded.fingerprints
                /\ pc' = "spawn"
                /\ UNCHANGED exited
    /\ UNCHANGED <<inputs, scanned, scanFailed, pool, cpc, cur, buckets, report,
                   history, panicked, twice>>

\* go func() { for result := range results { ... } }()
SpawnConsumer ==
    /\ ~exited /\ pc = "spawn"
    /\ cpc' = "range"
    /\ pc' = "scan"
    /\ UNCHANGED <<exited, inputs, fingerprints, scanned, scanFailed, pool, cur,
                   buckets, report, history, panicked, twice>>

\* scanner.Scan(): the next line (then wg.Add(1)); or the end of the file, after
\* which scanner.Err() is nil; or an error, after which scanner.Err() is not nil,
\* the error is logged and checkCNAMEs returns.
Scan ==
    /\ ~exited /\ pc = "scan"
    /\ \/ /\ scanned < Len(candidates)
          /\ scanned' = scanned + 1
          /\ wg' = wg + 1
          /\ pc' = "acquire"
          /\ UNCHANGED scanFailed
       \/ /\ scanned = Len(candidates)
          /\ pc' = "wait"
          /\ UNCHANGED <<scanned, wg, scanFailed>>
       \/ /\ scanFailed' = TRUE
          /\ pc' = "returned"
          /\ UNCHANGED <<scanned, wg>>
    /\ UNCHANGED <<exited, inputs, fingerprints, sem, results, closed, wpc, msg, cpc,
                   cur, buckets, report, history, panicked, twice>>

\* Acquire with the capacity of sem not limiting the send.
AcquireUnbounded ==
    /\ ~exited /\ pc = "acquire"
    /\ sem' = sem + 1
    /\ pc' = "go"
    /\ UNCHANGED <<exited, inputs, fingerprints, scanned, scanFailed, wg, results,
                   closed, wpc, msg, cpc, cur, buckets, report, history, panicked, twice>>

\* sem <- struct{}{}: blocks while the channel is full.
Acquire ==
    /\ ~exited /\ pc = "acquire"
    /\ sem < maxConcurrency
    /\ sem' = sem + 1
    /\ pc' = "go"
    /\ UNCHANGED <<exited, inputs, fingerprints, scanned, scanFailed, wg, results,
                   closed, wpc, msg, cpc, cur, buckets, report, history, panicked, twice>>

\* go func(domain string) { ... }(domain)
Go ==
    /\ ~exited /\ pc = "go"
    /\ wpc' = [wpc EXCEPT ![scanned] = "query"]
    /\ pc' = "scan"
    /\ UNCHANGED <<exited, inputs, fingerprints, scanned, scanFailed, wg, sem, results,
                   closed, msg, cpc, cur, buckets, report, history, panicked, twice>>

\* Wait returning although workers are still running.
WaitNoBarrier ==
    /\ ~exited /\ pc = "wait"
    /\ pc' = "close"
    /\ UNCHANGED <<exited, inputs, fingerprints, scanned, scanFailed, pool, cpc, cur,
                   buckets, report, history, panicked, twice>>

\* wg.Wait()
Wait ==
    /\ ~exited /\ pc = "wait"
    /\ wg = 0
    /\ pc' = "close"
    /\ UNCHANGED <<exited, inputs, fingerprints, scanned, scanFailed, pool, cpc, cur,
                   buckets, report, history, panicked, twice>>

\* close(results)
Close ==
    /\ ~exited /\ pc = "close"
    /\ closed' = TRUE
    /\ pc' = "write"
    /\ UNCHANGED <<exited, inputs, fingerprints, scanned, scanFailed, wg, sem, results,
                   wpc, msg, cpc, cur, buckets, report, history, panicked, twice>>

\* ------------------------------------------------------------------ writeResults

\* The WriteString calls of one section: the title, one bulleted line per item
\* and the closing text; nothing for an empty bucket.
Section(title, items, closing) ==
    IF Len(items) > 0
    THEN <<<<title>>>> \o [i \in 1..Len(items) |-> <<"- ">> \o items[i] \o <<NL>>] \o closing
    ELSE <<>>

\* os.Create(outputFileName); log.Fatalf on an error.
CreateOutput ==
    /\ ~exited /\ pc = "write"
    /\ \E ok \in BOOLEAN :
          IF ok
          THEN pc' = "writeExploitable" /\ UNCHANGED exited
          ELSE exited' = TRUE /\ UNCHANGED pc
    /\ UNCHANGED <<inputs, fingerprints, scanned, scanFailed, pool, cpc, cur, buckets,
                   report, history, panicked, twice>>

\* The first section. writeResults reads each bucket where the consumer
\* goroutine appends to it, with no synchronisation between the two.
WriteExploitable ==
    /\ ~exited /\ pc = "writeExploitable"
    /\ report' = report \o Section("### Is Exploitable\n\n", isExploitable, <<<<NL>>>>)
    /\ pc' = "writeNotExploitable"
    /\ UNCHANGED <<exited, inputs, fingerprints, scanned, scanFailed, pool, cpc, cur,
                   buckets, history, panicked, twice>>

\* The second section.
WriteNotExploitable ==
    /\ ~exited /\ pc = "writeNotExploitable"
    /\ report' = report \o Section("### Not Exploitable\n\n", notExploitable, <<<<NL>>>>)
    /\ pc' = "writeUnknown"
    /\ UNCHANGED <<exited, inputs, fingerprints, scanned, scanFailed, pool, cpc, cur,
                   buckets, history, panicked, twice>>

\* The last section; writeResults and then checkCNAMEs return.
WriteUnknown ==
    /\ ~exited /\ pc = "writeUnknown"
    /\ report' = report
                   \o Section("### Exploitability Unknown\n\n", unknownExploitability, <<>>)
    /\ pc' = "returned"
    /\ UNCHANGED <<exited, inputs, fingerprints, scanned, scanFailed, pool, cpc, cur,
                   buckets, history, panicked, twice>>

\* checkCNAMEs, queryCRTSH, run and main return: the program exits without
\* waiting for the other goroutines.
Exit ==
    /\ ~exited /\ pc = "returned"
    /\ exited' = TRUE
    /\ UNCHANGED <<pc, inputs, fingerprints, scanned, scanFailed, pool, cpc, cur,
                   buckets, report, history, panicked, twice>>

\* ------------------------------------------------------------------ workers

\* Query running dig again when it failed.
QueryRetry(i) ==
    /\ ~exited /\ wpc[i] = "query"
    /\ \E dig \in DigOutputs :
          IF dig.err
          THEN UNCHANGED <<msg, wpc>>
          ELSE /\ msg' = [msg EXCEPT ![i] = queryResult(candidates[i], dig)]
               /\ wpc' = [wpc EXCEPT ![i] = "send"]
    /\ digCalls' = [digCalls EXCEPT ![i] = @ + 1]
    /\ UNCHANGED <<pc, exited, inputs, fingerprints, scanned, scanFailed, wg, sem,
                   results, closed, cpc, cur, buckets, report, sends, consumed, calls,
                   panicked, twice>>

\* Query giving the permit back as soon as dig has returned, before the send.
QueryThenRelease(i) ==
    /\ ~exited /\ wpc[i] = "query"
    /\ \E dig \in DigOutputs : msg' = [msg EXCEPT ![i] = queryResult(candidates[i], dig)]
    /\ digCalls' = [digCalls EXCEPT ![i] = @ + 1]
    /\ wpc' = [wpc EXCEPT ![i] = "send"]
    /\ sem' = sem - 1
    /\ UNCHANGED <<pc, exited, inputs, fingerprints, scanned, scanFailed, wg,
                   results, closed, cpc, cur, buckets, report, sends, consumed, calls,
                   panicked, twice>>

\* queryAndSendCNAME: dig runs once and the result to send is built.
Query(i) ==
    /\ ~exited /\ wpc[i] = "query"
    /\ \E dig \in DigOutputs : msg' = [msg EXCEPT ![i] = queryResult(candidates[i], dig)]
    /\ digCalls' = [digCalls EXCEPT ![i] = @ + 1]
    /\ wpc' = [wpc EXCEPT ![i] = "send"]
    /\ UNCHANGED <<pc, exited, inputs, fingerprints, scanned, scanFailed, wg, sem,
                   results, closed, cpc, cur, buckets, report, sends, consumed, calls,
                   panicked, twice>>

\* results <- cnameResult{...}: blocks while the buffer is full; a send on a
\* closed channel panics. queryAndSendCNAME then returns.
Send(i) ==
    /\ ~exited /\ wpc[i] = "send"
    /\ IF closed
       THEN /\ panicked' = TRUE
            /\ exited' = TRUE
            /\ UNCHANGED <<results, sends, wpc, msg>>
       ELSE /\ Len(results) < ResultsCap
            /\ results' = Append(results, msg[i])
            /\ sends' = [sends EXCEPT ![i] = @ + 1]
            /\ wpc' = [wpc EXCEPT ![i] = "release"]
            /\ msg' = [msg EXCEPT ![i] = NoResult]
            /\ UNCHANGED <<panicked, exited>>
    /\ UNCHANGED <<pc, inputs, fingerprints, scanned, scanFailed, wg, sem, closed,
                   cpc, cur, buckets, report, digCalls, consumed, calls, twice>>

\* A worker that finishes without giving its permit back.
ReleaseKept(i) ==
    /\ ~exited /\ wpc[i] = "release"
    /\ wpc' = [wpc EXCEPT ![i] = "wgDone"]
    /\ UNCHANGED <<pc, exited, inputs, fingerprints, scanned, scanFailed, wg, sem, results,
                   closed, msg, cpc, cur, buckets, report, history, panicked, twice>>

\* defer func() { <-sem }()
Release(i) ==
    /\ ~exited /\ wpc[i] = "release"
    /\ sem' = sem - 1
    /\ wpc' = [wpc EXCEPT ![i] = "wgDone"]
    /\ UNCHANGED <<pc, exited, inputs, fingerprints, scanned, scanFailed, wg, results,
                   closed, msg, cpc, cur, buckets, report, history, panicked, twice>>

\* defer wg.Done()
WgDone(i) ==
    /\ ~exited /\ wpc[i] = "wgDone"
    /\ wg' = wg - 1
    /\ wpc' = [wpc EXCEPT ![i] = "done"]
    /\ UNCHANGED <<pc, exited, inputs, fingerprints, scanned, scanFailed, sem, results,
                   closed, msg, cpc, cur, buckets, report, history, panicked, twice>>

\* ------------------------------------------------------------------ consumer

\* Receive leaving the received result in the buffer.
ReceiveNoDequeue ==
    /\ ~exited /\ cpc = "range"
    /\ \/ /\ results # <<>>
          /\ cur' = Head(results)
          /\ consumed' = [consumed EXCEPT ![Candidate(Head(results).domain)] =
                                               Append(@, Head(results))]
          /\ cpc' = "process"
          /\ UNCHANGED results
       \/ /\ results = <<>> /\ closed
          /\ cpc' = "done"
          /\ UNCHANGED <<cur, results, consumed>>
    /\ UNCHANGED <<pc, exited, inputs, fingerprints, scanned, scanFailed, wg, sem,
                   closed, wpc, msg, buckets, report, digCalls, sends, calls, panicked,
                   twice>>

\* for result := range results: the next result, or the end of the loop once the
\* channel is closed and empty.
Receive ==
    /\ ~exited /\ cpc = "range"
    /\ \/ /\ results # <<>>
          /\ cur' = Head(results)
          /\ results' = Tail(results)
          /\ consumed' = [consumed EXCEPT ![Candidate(Head(results).domain)] =
                                               Append(@, Head(results))]
          /\ cpc' = "process"
       \/ /\ results = <<>> /\ closed
          /\ cpc' = "done"
          /\ UNCHANGED <<cur, results, consumed>>
    /\ UNCHANGED <<pc, exited, inputs, fingerprints, scanned, scanFailed, wg, sem,
                   closed, wpc, msg, buckets, report, digCalls, sends, calls, panicked, twice>>

\* The package's bucket lists and the log of matcher calls.
Buckets ==
    [isExploitable |-> isExploitable, notExploitable |-> notExploitable,
     unknownExploitability |-> unknownExploitability, notFound |-> notFound,
     calls |-> calls]

\* The consumer's step as the body of processResults: a named result goes to found.
ProcessLegacy ==
    /\ ~exited /\ cpc = "process"
    /\ IF cur.err \/ cur.cname = <<>>
       THEN notFound' = Append(notFound, notFoundMsg(cur)) /\ UNCHANGED found
       ELSE found' = Append(found, unknownMsg(cur)) /\ UNCHANGED notFound
    /\ cpc' = "range"
    /\ cur' = NoResult
    /\ UNCHANGED <<pc, exited, inputs, fingerprints, scanned, scanFailed, pool,
                   isExploitable, notExploitable, unknownExploitability, report,
                   history, panicked, twice>>

\* processCNAMEResult(result, fingerprints)
Process ==
    /\ ~exited /\ cpc = "process"
    /\ \E order \in MapOrders(Len(fingerprints)) :
          LET b == processCNAMEResult(cur, fingerprints, order, Buckets)
          IN  /\ isExploitable' = b.isExploitable
              /\ notExploitable' = b.notExploitable
              /\ unknownExploitability' = b.unknownExploitability
              /\ notFound' = b.notFound
              /\ calls' = b.calls
    /\ cpc' = "range"
    /\ cur' = NoResult
    /\ UNCHANGED <<pc, exited, inputs, fingerprints, scanned, scanFailed, pool,
                   found, report, digCalls, sends, consumed, panicked, twice>>

\* ------------------------------------------------------------------ specification

Next ==
    \/ OpenFile \/ LoadFingerprints \/ SpawnConsumer
    \/ Scan \/ Acquire \/ Go \/ Wait \/ Close
    \/ CreateOutput \/ WriteExploitable \/ WriteNotExploitable \/ WriteUnknown
    \/ Exit
    \/ \E i \in Workers : Query(i) \/ Send(i) \/ Release(i) \/ WgDone(i)
    \/ Receive \/ Process

Spec == Init /\ [][Next]_vars

\* ------------------------------------------------------------------ classifying twice

\* The results queryAndSendCNAME can send.
ResultSpace == { queryResult(Domain(i), dig) : i \in Workers, dig \in DigOutputs }

\* The classifier alone: a loaded store, a received result, and buckets that
\* hold nothing or one earlier line.
ClassifyInit ==
    /\ pc = "classify"
    /\ exited = FALSE
    /\ candidates \in CandidateFiles
    /\ Len(candidates) = MaxCandidates
    /\ fingerprintsFile \in FingerprintFiles
    /\ ReadFile(fingerprintsFile).readable
    /\ fingerprints = loadFingerprints(fingerprintsFile).fingerprints
    /\ scanned = 0
    /\ scanFailed = FALSE
    /\ wg = 0
    /\ sem = 0
    /\ results = <<>>
    /\ closed = FALSE
    /\ wpc = [i \in Workers |-> "none"]
    /\ msg = [i \in Workers |-> NoResult]
    /\ cpc = "process"
    /\ cur \in ResultSpace
    /\ isExploitable = <<>>
    /\ notExploitable = <<>>
    /\ unknownExploitability = <<>>
    /\ notFound \in {<<>>, <<notFoundMsg(CnameResult(Domain(1), <<>>, TRUE))>>}
    /\ found = <<>>
    /\ report = <<>>
    /\ digCalls = [i \in Workers |-> 0]
    /\ sends = [i \in Workers |-> 0]
    /\ consumed = [i \in Workers |-> <<>>]
    /\ calls = {}
    /\ panicked = FALSE
    /\ first = <<>>
    /\ second = <<>>

\* processCNAMEResult(cur, fingerprints) from the buckets as they stand.
ClassifyFirst ==
    /\ pc = "classify" /\ first = <<>>
    /\ \E order \in MapOrders(Len(fingerprints)) :
          first' = <<processCNAMEResult(cur, fingerprints, order, Buckets)>>
    /\ UNCHANGED <<pc, exited, inputs, fingerprints, scanned, scanFailed, pool, cpc, cur,
                   buckets, report, history, panicked, second>>

\* The same call, on the same result and store, from the same buckets.
ClassifySecond ==
    /\ pc = "classify" /\ first # <<>> /\ second = <<>>
    /\ \E order \in MapOrders(Len(fingerprints)) :
          second' = <<processCNAMEResult(cur, fingerprints, order, Buckets)>>
    /\ UNCHANGED <<pc, exited, inputs, fingerprints, scanned, scanFailed, pool, cpc, cur,
                   buckets, report, history, panicked, first>>

ClassifyNext == ClassifyFirst \/ ClassifySecond

ClassifySpec == ClassifyInit /\ [][ClassifyNext]_vars

\* ------------------------------------------------------------------ properties

Range(q) == { q[k] : k \in 1..Len(q) }

\* A bucket line is about domain d: the domain follows the line's first piece,
\* and ends the line or is followed by " is: ".
About(line, d) ==
    /\ Len(line) > Len(d)
    /\ SubSeq(line, 2, Len(d) + 1) = d
    /\ IF line[1] = "No CNAME record found for: "
       THEN Len(line) = Len(d) + 1
       ELSE Len(line) > Len(d) + 1 /\ line[Len(d) + 2] = " is: "

AllLines == isExploitable \o notExploitable \o unknownExploitability \o notFound

\* The number of bucket lines about candidate i.
LinesFor(i) == Cardinality({ k \in 1..Len(AllLines) : About(AllLines[k], Domain(i)) })

\* The candidates whose worker has been launched.
Launched == { i \in Workers : wpc[i] # "none" }

\* The workers executing queryAndSendCNAME.
InFlight == { i \in Workers : wpc[i] \in {"query", "send"} }

\* writeResults is reading the buckets, or has read them.
ReportSteps == {"writeExploitable", "writeNotExploitable", "writeUnknown"}

\* C1: when writeResults reads the buckets, every result handed to the result
\* queue has been dequeued and classified by the consumer (the consumer has
\* drained the closed queue and mutates no bucket any more).
C1_ReportAfterDrain ==
    pc \in ReportSteps => results = <<>> /\ cpc # "process"

\* C2: at no instant are more than maxConcurrency executions of
\* queryAndSendCNAME in flight.
C2_AtMostCInFlight == Cardinality(InFlight) <= maxConcurrency

\* C2 witness: maxConcurrency calls are in flight while the main goroutine
\* waits for a permit for the next candidate.
C2_Witness ==
    /\ Cardinality(InFlight) = maxConcurrency
    /\ pc = "acquire"
    /\ sem = maxConcurrency

C4_CloseAfterLastSend ==
    /\ ~panicked
    /\ closed =>
          /\ scanned = Len(candidates)
          /\ \A i \in 1..scanned : sends[i] = 1 /\ wpc[i] \notin {"query", "send"}
          /\ \A i \in Workers : i > scanned => wpc[i] = "none"

\* C4 witness: the queue is closed after the workers of a full candidate file
\* sent their results.
C4_Witness ==
    /\ closed
    /\ Len(candidates) = MaxCandidates
    /\ \A i \in 1..MaxCandidates : sends[i] = 1

\* The results the consumer has received and classified.
ProcessedResults ==
    LET received == UNION { Range(consumed[i]) : i \in Workers }
    IN  IF cpc = "process" THEN received \ {cur} ELSE received

\* The results that carry a resolved name.
Named(r) == ~r.err /\ r.cname # <<>>

\* The buckets that hold a line about domain d.
BucketsOf(d) ==
    { name \in {"isExploitable", "notExploitable", "unknownExploitability", "notFound"} :
        \E k \in 1..Len(Buckets[name]) : About(Buckets[name][k], d) }

\* The entries, by position in load order, with a pattern the name ends with
\* once its trailing root dot is removed.
DirectEntries(r) ==
    { k \in 1..Len(fingerprints) :
        \E j \in 1..Len(fingerprints[k].cname) :
            HasSuffix(TrimSuffix(r.cname, <<Dot>>), fingerprints[k].cname[j]) }

\* The entries whose service id is the name's second-level-domain label.
ServiceEntries(r) ==
    { k \in 1..Len(fingerprints) : fingerprints[k].service = extractServiceName(r.cname) }

\* The bucket a matched result goes to.
Routed(vulnerable) == IF vulnerable THEN "isExploitable" ELSE "notExploitable"

\* C5: a name that several entries match by suffix is classified by the entry
\* that is first in load order: its line carries that entry's verdict and
\* stands in that verdict's bucket.
C5_FirstMatchWins ==
    \A r \in ProcessedResults :
        Named(r) /\ DirectEntries(r) # {} =>
            LET v == fingerprints[Min(DirectEntries(r))].vulnerable
            IN  /\ foundMsg(r, v) \in Range(Buckets[Routed(v)])
                /\ BucketsOf(r.domain) = {Routed(v)}

\* C6: classifying the same result against the same store twice, from the same
\* buckets, selects the same bucket and produces the same line.
C6_SameOutcomeTwice ==
    first # <<>> /\ second # <<>> => first = second

\* C7: a result that carries a failure or an empty resolved name gets the line
\* 'No CNAME record found for: <domain>' in notFound, no line in any other
\* bucket, and no matcher is called for it.
C7_FailedIsNoRecord ==
    \A r \in ProcessedResults :
        r.err \/ r.cname = <<>> =>
            /\ <<"No CNAME record found for: ">> \o r.domain \in Range(notFound)
            /\ BucketsOf(r.domain) = {"notFound"}
            /\ \A c \in calls : c[2] # r

\* C7 witness: a failed result and a result with an empty name have both been
\* classified against a store with entries.
C7_Witness ==
    /\ fingerprints # <<>>
    /\ \E r1, r2 \in ProcessedResults :
          r1.err /\ ~r2.err /\ r2.cname = <<>> /\ r1.domain # r2.domain

\* C8: a named result is classified by the direct match when some entry matches
\* by suffix (the service matcher is then not called), else by the service
\* match when some entry's service id is its second-level-domain label, else
\* as Unknown; a match is routed to Exploitable when its verdict is vulnerable
\* and to NotExploitable when it is not.
C8_RulesInOrder ==
    \A r \in ProcessedResults :
        Named(r) =>
            IF DirectEntries(r) # {}
            THEN /\ \E k \in DirectEntries(r) :
                       LET v == fingerprints[k].vulnerable
                       IN  /\ foundMsg(r, v) \in Range(Buckets[Routed(v)])
                           /\ BucketsOf(r.domain) = {Routed(v)}
                 /\ <<"isServiceVulnerable", r>> \notin calls
            ELSE IF ServiceEntries(r) # {}
            THEN \E k \in ServiceEntries(r) :
                     LET v == fingerprints[k].vulnerable
                     IN  /\ serviceMsg(r, fingerprints[k].service, v)
                                \in Range(Buckets[Routed(v)])
                         /\ BucketsOf(r.domain) = {Routed(v)}
            ELSE /\ unknownMsg(r) \in Range(unknownExploitability)
                 /\ BucketsOf(r.domain) = {"unknownExploitability"}

\* C8 witness: under a store where one name matches an entry by suffix and a
\* different entry by service id, that name and a name that only matches by
\* service id have been classified.
C8_Witness ==
    /\ fingerprints = StoreMixed
    /\ \E r1, r2 \in ProcessedResults :
          /\ r1.cname = shopMyshopifyComDot /\ ~r1.err
          /\ DirectEntries(r1) # {} /\ ServiceEntries(r1) # {}
          /\ r2.cname = xAExampleDot /\ ~r2.err
          /\ DirectEntries(r2) = {} /\ ServiceEntries(r2) # {}

\* C9: when loadFingerprints fails the run ends with no consumer and no worker
\* started, no dig run, nothing queued, no bucket line and no report; every
\* worker and every dig run comes after a successful load.
C9_LoadFailureIsFatal ==
    /\ ~ReadFile(fingerprintsFile).readable =>
          /\ pc \in {"open", "load", "returned"}
          /\ pc = "returned" => scanned = 0 /\ ~closed
          /\ cpc = "none"
          /\ \A i \in Workers : wpc[i] = "none" /\ digCalls[i] = 0 /\ sends[i] = 0
          /\ scanned = 0 /\ wg = 0 /\ sem = 0
          /\ results = <<>>
          /\ AllLines = <<>>
          /\ report = <<>>
    /\ \A i \in Workers :
          wpc[i] # "none" \/ digCalls[i] > 0 =>
              /\ ReadFile(fingerprintsFile).readable
              /\ pc \notin {"open", "load"}
              /\ fingerprints = ReadFile(fingerprintsFile).entries

\* C9 witness: the load failed and the process has ended, with candidates in
\* the file.
C9_Witness ==
    /\ ~ReadFile(fingerprintsFile).readable
    /\ exited /\ pc = "load"
    /\ Len(candidates) = MaxCandidates

\* C10: dig runs exactly once per candidate, whatever it returns; a failed run
\* only yields a result with the failure set: it ends neither the process nor
\* the pipeline, and every other candidate is still resolved and sent.
C10_SingleShotLocalFailure ==
    /\ ~panicked
    /\ \A i \in Workers :
          /\ digCalls[i] <= 1
          /\ wpc[i] \in {"none", "query"} => digCalls[i] = 0
          /\ wpc[i] \in {"send", "release", "wgDone", "done"} => digCalls[i] = 1
          /\ wpc[i] = "send" =>
                /\ msg[i].domain = candidates[i]
                /\ msg[i].err => msg[i].cname = <<>>
    /\ exited => \/ pc = "load" /\ ~ReadFile(fingerprintsFile).readable
                 \/ pc = "write"
                 \/ pc = "returned"
    /\ closed => \A i \in 1..Len(candidates) : digCalls[i] = 1 /\ sends[i] = 1

\* C10 witness: the run is over, the first candidate's resolution failed and
\* the second candidate was resolved and classified all the same.
C10_Witness ==
    /\ pc = "returned" /\ closed
    /\ \E r1, r2 \in ProcessedResults :
          /\ r1.domain = Domain(1) /\ r1.err
          /\ r2.domain = Domain(2) /\ Named(r2)

\* ------------------------------------------------------------------ the direct matcher alone

\* Names isVulnerableCNAME can be given: with no, one and two root dots, in
\* upper case, with the pattern inside a longer label, not at the end, cut short.
shopMyshopifyCom ==
    <<"s", "h", "o", "p", ".", "m", "y", "s", "h", "o", "p", "i", "f", "y", ".", "c", "o", "m">>
shopMyshopifyComDotDot ==
    <<"s", "h", "o", "p", ".", "m", "y", "s", "h", "o", "p", "i", "f", "y", ".", "c", "o", "m", ".", ".">>
shopMyshopifyComUpper ==
    <<"S", "H", "O", "P", ".", "M", "Y", "S", "H", "O", "P", "I", "F", "Y", ".", "C", "O", "M">>
notmyshopifyCom ==
    <<"n", "o", "t", "m", "y", "s", "h", "o", "p", "i", "f", "y", ".", "c", "o", "m">>
myshopifyComX ==
    <<"m", "y", "s", "h", "o", "p", "i", "f", "y", ".", "c", "o", "m", ".", "x">>
myshopifyCo ==
    <<"m", "y", "s", "h", "o", "p", "i", "f", "y", ".", "c", "o">>
xaExample ==
    <<"x", "a", ".", "e", "x", "a", "m", "p", "l", "e">>
dotMyshopifyCom ==
    <<".", "m", "y", "s", "h", "o", "p", "i", "f", "y", ".", "c", "o", "m">>
myshopifyComUpper ==
    <<"M", "Y", "S", "H", "O", "P", "I", "F", "Y", ".", "C", "O", "M">>

MatchNames ==
    {shopMyshopifyComDot, shopMyshopifyCom, shopMyshopifyComDotDot, shopMyshopifyComUpper,
     notmyshopifyCom, myshopifyCom, myshopifyComX, myshopifyCo, xAExampleDot, aExample,
     xaExample, <<Dot>>}

\* Stores whose pattern starts with a dot, or is in upper case.
StoreLeadingDot == <<Entry(shopify, <<dotMyshopifyCom>>, TRUE)>>
StoreUpper == <<Entry(shopify, <<myshopifyComUpper>>, FALSE)>>
MatchStores == Stores \cup {StoreLeadingDot, StoreUpper}

MatchInit ==
    /\ pc = "match"
    /\ exited = FALSE
    /\ candidates \in CandidateFiles
    /\ Len(candidates) = MaxCandidates
    /\ fingerprintsFile = "shopify"
    /\ fingerprints \in MatchStores
    /\ scanned = 0
    /\ scanFailed = FALSE
    /\ wg = 0
    /\ sem = 0
    /\ results = <<>>
    /\ closed = FALSE
    /\ wpc = [i \in Workers |-> "none"]
    /\ msg = [i \in Workers |-> NoResult]
    /\ cpc = "process"
    /\ cur \in { CnameResult(Domain(1), n, FALSE) : n \in MatchNames }
    /\ isExploitable = <<>>
    /\ notExploitable = <<>>
    /\ unknownExploitability = <<>>
    /\ notFound = <<>>
    /\ found = <<>>
    /\ report = <<>>
    /\ digCalls = [i \in Workers |-> 0]
    /\ sends = [i \in Workers |-> 0]
    /\ consumed = [i \in Workers |-> <<>>]
    /\ calls = {}
    /\ panicked = FALSE
    /\ first = <<>>
    /\ second = <<>>

\* directMatch, vulnerable := isVulnerableCNAME(result.cname, fingerprints)
MatchDirect ==
    /\ pc = "match" /\ first = <<>>
    /\ \E order \in MapOrders(Len(fingerprints)) :
          first' = <<isVulnerableCNAME(cur.cname, fingerprints, order)>>
    /\ UNCHANGED <<pc, exited, inputs, fingerprints, scanned, scanFailed, pool, cpc, cur,
                   buckets, report, history, panicked, second>>

MatchNext == MatchDirect

MatchSpec == MatchInit /\ [][MatchNext]_vars

\* s without its last character when that is a dot.
WithoutOneDot(s) ==
    IF Len(s) > 0 /\ s[Len(s)] = "." THEN [i \in 1..(Len(s) - 1) |-> s[i]] ELSE s

\* The last Len(p) characters of s are those of p, one by one.
EndsWith(s, p) ==
    /\ Len(p) <= Len(s)
    /\ \A i \in 1..Len(p) : s[Len(s) - Len(p) + i] = p[i]

\* The verdicts of the entries with a pattern the name ends with.
MatchingVerdicts(name, store) ==
    { store[k].vulnerable : k \in { k \in 1..Len(store) :
          \E j \in 1..Len(store[k].cname) : EndsWith(WithoutOneDot(name), store[k].cname[j]) } }

\* C11: the direct match removes exactly one trailing dot from the name and
\* then tests, character by character, that the name ends with a pattern:
\* shop.myshopify.com. and shop.myshopify.com match myshopify.com, a name with
\* two trailing dots does not, and neither case, label boundaries nor a leading
\* dot of the pattern get any special treatment.
C11_ExactSuffixOneDot ==
    first # <<>> =>
        LET matched == first[1][1]
            name == cur.cname
        IN  /\ matched = (MatchingVerdicts(name, fingerprints) # {})
            /\ matched => first[1][2] \in MatchingVerdicts(name, fingerprints)
            /\ ~matched => first[1][2] = FALSE
            /\ fingerprints = StoreShopify =>
                  /\ name \in {shopMyshopifyComDot, shopMyshopifyCom} => matched
                  /\ name = shopMyshopifyComDotDot => ~matched
                  /\ name = shopMyshopifyComUpper => ~matched
                  /\ name = notmyshopifyCom => matched
                  /\ name = myshopifyComX => ~matched
            /\ fingerprints = StoreLeadingDot =>
                  /\ name = myshopifyCom => ~matched
                  /\ name = shopMyshopifyComDot => matched
            /\ fingerprints = StoreUpper =>
                  /\ name = shopMyshopifyComDot => ~matched
                  /\ name = shopMyshopifyComUpper => matched

\* C11 witness: a name with two trailing dots was tested against its pattern
\* and did not match.
C11_Witness ==
    /\ pc = "match"
    /\ first = <<<<FALSE, FALSE>>>>
    /\ cur.cname = shopMyshopifyComDotDot
    /\ fingerprints = StoreShopify

\* ------------------------------------------------------------------ the report

\* The report of three buckets: a titled section for each one that is not
\* empty, in the order exploitable, not exploitable, unknown.
Render(exploitable, notExpl, unknown) ==
    Section("### Is Exploitable\n\n", exploitable, <<<<NL>>>>)
      \o Section("### Not Exploitable\n\n", notExpl, <<<<NL>>>>)
      \o Section("### Exploitability Unknown\n\n", unknown, <<>>)

\* C12: when the program has run to its end, the report holds one titled
\* section for every bucket that is not empty, in the order exploitable, not
\* exploitable, unknown, with every line of the bucket as one bullet in bucket
\* order, no section for an empty bucket and nothing of the no-record bucket.
C12_ReportRendersBuckets ==
    (exited /\ pc = "returned" /\ ~scanFailed) =>
        report = Render(isExploitable, notExploitable, unknownExploitability)

\* ------------------------------------------------------------------ end to end

\* The scenario: candidates a.test and b.test, dig answers shop.myshopify.com.
\* for a.test and fails for b.test, the store is the single vulnerable entry
\* with the pattern myshopify.com, and the consumer has classified both results.
ScenarioDone ==
    /\ candidates = <<Domain(1), Domain(2)>>
    /\ fingerprints = StoreShopify
    /\ cpc = "done"
    /\ consumed[1] = <<CnameResult(Domain(1), shopMyshopifyComDot, FALSE)>>
    /\ consumed[2] = <<CnameResult(Domain(2), <<>>, TRUE)>>

\* C13: in the scenario the exploitable bucket is the single line
\* "CNAME for a.test is: shop.myshopify.com (found matching fingerprint - vulnerable)",
\* the no-record bucket is the single line "No CNAME record found for: b.test",
\* and the other two buckets are empty.
C13_EndToEnd ==
    ScenarioDone =>
        /\ isExploitable = << <<"CNAME for ">> \o Domain(1) \o <<" is: ">> \o shopMyshopifyCom
                                \o <<" (found matching fingerprint - ">>
                                \o <<"vulnerable">> \o <<")">> >>
        /\ notFound = << <<"No CNAME record found for: ">> \o Domain(2) >>
        /\ notExploitable = <<>>
        /\ unknownExploitability = <<>>

\* ------------------------------------------------------------------ ownership of the buckets

\* C14: while the consumer is in the middle of classifying a result, about to
\* append to a bucket, no other goroutine is reading or writing the buckets:
\* writeResults is not going through them.
C14_NoBucketRace ==
    cpc = "process" => pc \notin ReportSteps

\* ------------------------------------------------------------------ permits

\* The candidates holding a permit: the one the main goroutine has sent on sem
\* for and is about to start, and the workers that have not yet run their
\* deferred receive from sem.
Holding ==
    { i \in Workers : wpc[i] \in {"query", "send", "release"} }
        \cup (IF pc = "go" THEN {scanned} ELSE {})

\* checkCNAMEs is past wg.Wait.
PastWait == pc \in {"close", "write"} \cup ReportSteps \/ (pc = "returned" /\ ~scanFailed)

\* C15: the permits held are exactly those of the workers launched and not
\* yet finished, one each, whether the resolution succeeded or failed; their
\* number is never negative nor above maxConcurrency, and is 0 once wg.Wait
\* has returned.
C15_PermitsBalanced ==
    /\ sem = Cardinality(Holding)
    /\ sem \in 0..maxConcurrency
    /\ PastWait => sem = 0

\* C15 witness: wg.Wait has returned after a worker whose resolution failed.
C15_Witness ==
    /\ pc = "close"
    /\ sem = 0
    /\ \E i \in Workers : wpc[i] = "done" /\ digCalls[i] = 1 /\ sends[i] = 1
    /\ \E k \in 1..Len(results) : results[k].err

\* ------------------------------------------------------------------ running to completion

\* C16: the pipeline runs to completion: when the program has closed the
\* queue, written the report and ended, every candidate's result has been sent
\* and the consumer has drained the queue and left its loop.
C16_RunsToCompletion ==
    (exited /\ pc = "returned" /\ closed) =>
        /\ \A i \in 1..Len(candidates) : sends[i] = 1 /\ wpc[i] = "done"
        /\ sem = 0
        /\ results = <<>> /\ cpc = "done"

\* ------------------------------------------------------------------ the ways out of checkCNAMEs

\* C17: whenever checkCNAMEs has returned after starting the consumer, every
\* launched worker has been waited for and the result queue has been closed,
\* so that the consumer can leave its loop.
C17_EveryReturnWaitsAndCloses ==
    (pc = "returned" /\ cpc # "none") => wg = 0 /\ closed

\* ------------------------------------------------------------------ what a classification changes

\* new is old with one line about domain d appended.
Appended(old, new, d) ==
    /\ Len(new) = Len(old) + 1
    /\ SubSeq(new, 1, Len(old)) = old
    /\ About(new[Len(new)], d)

\* C18: a step of processCNAMEResult appends one line, about the result just
\* dequeued, at the end of exactly one of the four buckets and leaves the other
\* three, the fingerprints and found as they were; no other step changes a
\* bucket, so a bucket only grows and its lines stand in dequeue order.
C18_OneAppendPerResult ==
    [][ LET old == <<isExploitable, notExploitable, unknownExploitability, notFound>>
            new == <<isExploitable', notExploitable', unknownExploitability', notFound'>>
        IN  IF cpc = "process" /\ cpc' # "process"
            THEN /\ \E k \in 1..4 :
                       /\ Appended(old[k], new[k], cur.domain)
                       /\ \A j \in (1..4) \ {k} : new[j] = old[j]
                 /\ fingerprints' = fingerprints
                 /\ found' = found
            ELSE new = old /\ found' = found
      ]_vars

\* C18 witness: two results were classified into the same bucket, one after
\* the other.
C18_Witness ==
    /\ Len(notFound) = 2
    /\ About(notFound[1], Domain(1)) /\ About(notFound[2], Domain(2))
    /\ consumed[1] # <<>> /\ consumed[2] # <<>>
    /\ cpc = "range"

\* ------------------------------------------------------------------ live workers

\* The workers that are running dig, blocked sending, or about to give their
\* permit back.
Live == { i \in Workers : wpc[i] \in {"query", "send", "release"} }

\* The workers that have enqueued their result and given their permit back.
Completed == { i \in Workers : wpc[i] \in {"wgDone", "done"} }

\* C19: the main goroutine takes the permit before the go statement and the
\* worker gives it back only after its result is in the queue, so at any
\* instant at most maxConcurrency workers are live, the results built and not
\* yet received number at most the capacity of the queue plus maxConcurrency,
\* and worker number i > maxConcurrency is launched only when i - maxConcurrency
\* earlier workers have completed.
C19_LiveWorkersBounded ==
    /\ Cardinality(Live) <= maxConcurrency
    /\ \A i \in Completed : sends[i] = 1
    /\ Len(results) + Cardinality({ i \in Workers : wpc[i] = "send" })
          <= ResultsCap + maxConcurrency
    /\ Len(results) <= ResultsCap
    /\ \A i \in Launched :
          i > maxConcurrency =>
              Cardinality({ j \in Completed : j < i }) >= i - maxConcurrency

\* C19 witness: the queue is full and a worker launched after the first
\* maxConcurrency ones is blocked sending its result.
C19_Witness ==
    /\ Len(results) = ResultsCap
    /\ \E i \in Workers : i > maxConcurrency /\ wpc[i] = "send"
====
